---- MODULE Spec2Model ----
(***************************************************************************)
(* Tool handlers of the GCP MCP server (src/services/compute/tools.ts,     *)
(* src/services/diagram/tools.ts), the instances resource                  *)
(* (src/unnamed/part_000) and the diagram assembler                        *)
(* (src/unnamed/part_001).                                                 *)
(*                                                                         *)
(* A handler is suspended only at its awaited calls: an action resumes it  *)
(* with the outcome of the pending call (a value or a thrown value) and    *)
(* runs it up to the next await or to its return.  calls is the log of the *)
(* calls the invocation issued, each "pending" until its outcome arrives,  *)
(* then "ok" or "failed".  Texts are sequences of string pieces (the       *)
(* pieces of a template literal); resource paths are strings.              *)
(*                                                                         *)
(* Spec runs one invocation at a time.  ConcurrentSpec runs two: suspended *)
(* holds the one that waits while the other executes.                      *)
(***************************************************************************)
EXTENDS Integers, Sequences, FiniteSets, TLC

VARIABLES
    tool,       \* the running handler, or "idle"
    input,      \* what its caller passed
    args,       \* the input as parsed by the tool's inputSchema
    pc,         \* the await it is suspended at, "start" or "done"
    project,    \* const project
    instance,   \* const [instance] of a get call
    zoneNames,  \* const zoneNames
    idx,        \* position of the for loop over zoneNames
    instances,  \* const instances: any[]
    nodes,      \* const nodes: string[] of the diagram assembler
    edges,      \* const edges: string[] of the diagram assembler
    probes,     \* the probes the assembler called and what became of them
    error,      \* the value bound by the catch clause
    calls,      \* the calls issued by this invocation
    result,     \* what the invocation handed to its caller
    buckets,    \* cloud storage: the buckets that exist
    objects,    \* cloud storage: the objects that exist, <<bucket, file>>
    suspended   \* the other invocation in progress, while this one runs

locals == <<project, instance, zoneNames, idx, instances, nodes, edges, probes>>
cloud == <<buckets, objects>>
vars == <<tool, input, args, pc, project, instance, zoneNames, idx, instances, nodes,
          edges, probes, error, calls, result, buckets, objects, suspended>>

(***************************************************************************)
(* Bounds of the model.                                                    *)
(***************************************************************************)
MaxHtmlLen == 2
MaxZones == 2
MaxNics == 2

(***************************************************************************)
(* Values.                                                                 *)
(***************************************************************************)
Absent == "<undefined>"
DefaultProject == "default-project"
ProjectIds == {Absent, "", "p"}
ZoneInputs == {"z"}
VmNames == {"vm"}
BucketNames == {"b"}
Truthy(s) == s # Absent /\ s # ""

\* JavaScript strings as sequences of code points: one, two and three UTF-8 bytes.
CodePoints == {65, 233, 8364}
HtmlOfLen(n) == [1..n -> CodePoints]
HtmlContents == UNION {HtmlOfLen(n) : n \in 0..MaxHtmlLen}
SomeHtml == <<65>>

\* Thrown values: Error instances (message possibly empty) and other values,
\* with a message property or without.
NoMessage == "<no message>"
Thrown ==
    { [isErrorInstance |-> TRUE, message |-> "quota exceeded"],
      [isErrorInstance |-> TRUE, message |-> ""],
      [isErrorInstance |-> FALSE, message |-> "permission denied"],
      [isErrorInstance |-> FALSE, message |-> NoMessage] }
NoError == [isErrorInstance |-> FALSE, message |-> "<nothing caught>"]
TypeErrorOfUndefined ==
    [isErrorInstance |-> TRUE,
     message |-> "Cannot read properties of undefined (reading 'networkInterfaces')"]

(***************************************************************************)
(* Buffer.from(htmlContent).toString('base64') and the shell's base64 -d.  *)
(***************************************************************************)
RECURSIVE Utf8Encode(_)
Utf8Encode(s) ==
    IF s = <<>> THEN <<>>
    ELSE LET c == Head(s)
             b == IF c < 128 THEN <<c>>
                  ELSE IF c < 2048 THEN <<192 + (c \div 64), 128 + (c % 64)>>
                  ELSE <<224 + (c \div 4096), 128 + ((c \div 64) % 64), 128 + (c % 64)>>
         IN  b \o Utf8Encode(Tail(s))

B64Alphabet ==
    <<"A","B","C","D","E","F","G","H","I","J","K","L","M","N","O","P",
      "Q","R","S","T","U","V","W","X","Y","Z","a","b","c","d","e","f",
      "g","h","i","j","k","l","m","n","o","p","q","r","s","t","u","v",
      "w","x","y","z","0","1","2","3","4","5","6","7","8","9","+","/">>
B64Char(n) == B64Alphabet[n + 1]

RECURSIVE Base64Encode(_)
Base64Encode(bytes) ==
    IF bytes = <<>> THEN <<>>
    ELSE IF Len(bytes) = 1 THEN
        LET n == bytes[1] * 65536
        IN  <<B64Char(n \div 262144), B64Char((n \div 4096) % 64), "=", "=">>
    ELSE IF Len(bytes) = 2 THEN
        LET n == bytes[1] * 65536 + bytes[2] * 256
        IN  <<B64Char(n \div 262144), B64Char((n \div 4096) % 64),
              B64Char((n \div 64) % 64), "=">>
    ELSE
        LET n == bytes[1] * 65536 + bytes[2] * 256 + bytes[3]
        IN  <<B64Char(n \div 262144), B64Char((n \div 4096) % 64),
              B64Char((n \div 64) % 64), B64Char(n % 64)>>
            \o Base64Encode(SubSeq(bytes, 4, Len(bytes)))

\* Buffer.from(htmlContent, 'latin1'): one byte per code unit, the high bits lost.
RECURSIVE Latin1Encode(_)
Latin1Encode(s) ==
    IF s = <<>> THEN <<>> ELSE <<Head(s) % 256>> \o Latin1Encode(Tail(s))
Base64HtmlLatin1(htmlContent) == Base64Encode(Latin1Encode(htmlContent))

\* const base64Html = Buffer.from(htmlContent || '').toString('base64')
Base64Html(htmlContent) == Base64Encode(Utf8Encode(htmlContent))

\* The startup script of deploy-static-html-site, as the pieces of its template.
EchoOpen == "echo \""
EchoClose == "\" | base64 -d > /var/www/html/index.html"
StartupScript(htmlContent) ==
    <<"#!/bin/bash", "set -e", "apt-get update -y", "apt-get install -y nginx",
      "mkdir -p /var/www/html", EchoOpen>>
    \o Base64Html(htmlContent)
    \o <<EchoClose, "systemctl restart nginx || service nginx restart || true">>

\* What the shell runs for the echo line: the characters between the double
\* quotes, less any the shell would expand rather than print, then a newline.
ShellSpecial == {"$", "\\", "\""}
IndexOf(seq, x) == CHOOSE i \in 1..Len(seq) : seq[i] = x
EchoedPayload(script) ==
    LET open == IndexOf(script, EchoOpen)
        close == IndexOf(script, EchoClose)
        quoted == SubSeq(script, open + 1, close - 1)
    IN  SelectSeq(quoted, LAMBDA c : c \notin ShellSpecial) \o <<"\n">>

\* base64 -d: newlines are skipped; a group of four characters gives three
\* bytes, fewer where it is padded; a truncated last group is dropped.
B64Value(c) == (CHOOSE i \in 1..64 : B64Alphabet[i] = c) - 1
RECURSIVE Base64DecodeGroups(_)
Base64DecodeGroups(cs) ==
    IF Len(cs) < 4 THEN <<>>
    ELSE LET v1 == B64Value(cs[1])
             v2 == B64Value(cs[2])
         IN  IF cs[3] = "=" THEN <<(v1 * 4 + (v2 \div 16)) % 256>>
             ELSE IF cs[4] = "=" THEN
                 LET n == v1 * 4096 + v2 * 64 + B64Value(cs[3])
                 IN  <<(n \div 1024) % 256, (n \div 4) % 256>>
             ELSE
                 LET n == v1 * 262144 + v2 * 4096 + B64Value(cs[3]) * 64
                          + B64Value(cs[4])
                 IN  <<n \div 65536, (n \div 256) % 256, n % 256>>
                     \o Base64DecodeGroups(SubSeq(cs, 5, Len(cs)))
Base64Decode(cs) == Base64DecodeGroups(SelectSeq(cs, LAMBDA c : c # "\n"))

\* The text a reader of the served file sees: UTF-8 decoding of its bytes.
RECURSIVE Utf8Decode(_)
Utf8Decode(b) ==
    IF b = <<>> THEN <<>>
    ELSE IF b[1] < 128 THEN <<b[1]>> \o Utf8Decode(Tail(b))
    ELSE IF b[1] < 224 /\ Len(b) >= 2 THEN
        <<(b[1] - 192) * 64 + (b[2] - 128)>> \o Utf8Decode(SubSeq(b, 3, Len(b)))
    ELSE IF Len(b) >= 3 THEN
        <<(b[1] - 224) * 4096 + (b[2] - 128) * 64 + (b[3] - 128)>>
        \o Utf8Decode(SubSeq(b, 4, Len(b)))
    ELSE <<65533>>


(***************************************************************************)
(* Cloud responses.  An optional array is [isArray, items]: undefined or   *)
(* null has isArray FALSE.                                                 *)
(***************************************************************************)
Undefined == [isArray |-> FALSE, items |-> <<>>]
Array(q) == [isArray |-> TRUE, items |-> q]
SeqsUpTo(S, n) == UNION {[1..k -> S] : k \in 0..n}
OrEmpty(a) == IF a.isArray THEN a.items ELSE <<>>

AccessConfigArrays ==
    { Undefined, Array(<<>>), Array(<<[natIP |-> Absent]>>),
      Array(<<[natIP |-> "1.2.3.4"]>>),
      Array(<<[natIP |-> "1.2.3.4"], [natIP |-> "5.6.7.8"]>>),
      Array(<<[natIP |-> ""], [natIP |-> "5.6.7.8"]>>) }
Nics == {[accessConfigs |-> a] : a \in AccessConfigArrays}
NicArrays == {Undefined} \cup {Array(q) : q \in SeqsUpTo(Nics, MaxNics)}
NoInstance == [defined |-> FALSE, status |-> Absent, networkInterfaces |-> Undefined]
InstanceValues ==
    {NoInstance} \cup
    {[defined |-> TRUE, status |-> s, networkInterfaces |-> n] :
        s \in {"RUNNING", Absent}, n \in NicArrays}

ZoneRecords == {[name |-> n] : n \in {"z1", "z2", Absent}}
ZoneArrays == {Undefined} \cup {Array(q) : q \in SeqsUpTo(ZoneRecords, MaxZones)}
InstanceArrays == {Undefined, Array(<<>>), Array(<<"vm-1">>), Array(<<"vm-1", "vm-2">>)}
ProjectRecords ==
    { [projectId |-> "p", name |-> "projects/p"],
      [projectId |-> Absent, name |-> "projects/q"],
      [projectId |-> Absent, name |-> Absent] }
ProjectArrays ==
    {Undefined, Array(<<>>)} \cup {Array(<<r>>) : r \in ProjectRecords}
BucketArrays == {Undefined, Array(<<>>), Array(<<"b">>), Array(<<"b", "c">>)}
\* What client.listAsync yields, in order: each element is undefined, or an
\* object the loop calls zone, which holds no instance or some.
NoElement == [defined |-> FALSE, instances |-> 0]
ZoneWith(n) == [defined |-> TRUE, instances |-> n]
Yielded == {NoElement, ZoneWith(0), ZoneWith(1)}
AsyncYields == SeqsUpTo(Yielded, 2)
SpannerArrays == {<<>>, <<"spanner-1">>}

(***************************************************************************)
(* Calls and results.                                                      *)
(***************************************************************************)
NoArg == [none |-> TRUE]
Call(op, proj, zone, name, arg) ==
    [op |-> op, project |-> proj, zone |-> zone, name |-> name, arg |-> arg,
     status |-> "pending", items |-> <<>>]
GetProjectIdCall == Call("getProjectId", Absent, Absent, Absent, NoArg)
SettleLast(cs, st, items) ==
    IF cs = <<>> THEN cs
    ELSE [cs EXCEPT ![Len(cs)].status = st, ![Len(cs)].items = items]

\* { content: [{ type: 'text', text }] }: isError FALSE is the property left unset.
NoResult == [kind |-> "none", text |-> <<>>, isError |-> FALSE]
Text(t) == [kind |-> "returned", text |-> t, isError |-> FALSE]
ErrorText(t) == [kind |-> "returned", text |-> t, isError |-> TRUE]
Contains(t, piece) == \E i \in 1..Len(t) : t[i] = piece

\* A catch clause that hands the caught value on to the caller.
CatchBlockRethrow(heading, e) == [kind |-> "thrown", text |-> <<>>, isError |-> FALSE]

\* The message of the caught value dropped for the generic one.
MessageOfGeneric(e) == "Unknown error"

\* const message = error instanceof Error ? error.message : 'Unknown error'
MessageOf(e) == IF e.isErrorInstance THEN e.message ELSE "Unknown error"

\* catch (error: unknown) { ...; return { content: [...], isError: true } }
CatchBlock(heading, e) == ErrorText(heading \o <<MessageOf(e)>>)

\* A catch clause that undoes the bucket creation.
CatchCallsRollback(cs, st) ==
    Append(SettleLast(cs, st, <<>>), Call("bucket.delete", Absent, Absent, "b", NoArg))

\* A catch clause that issues the failed call once more.
CatchCallsRetry(cs, st) ==
    IF cs = <<>> THEN cs
    ELSE Append(SettleLast(cs, st, <<>>), [cs[Len(cs)] EXCEPT !.status = "pending"])

\* The call log after a catch clause has run: it issues no call of its own.
CatchCalls(cs, st) == SettleLast(cs, st, <<>>)

\* Resume into the next await: the pending call succeeded with items, c is issued.
Awaits(c, label, items) ==
    /\ calls' = Append(SettleLast(calls, "ok", items), c)
    /\ pc' = label

\* Resume and return r.
Returns(r, items) ==
    /\ result' = r
    /\ pc' = "done"
    /\ calls' = SettleLast(calls, "ok", items)

\* The catch clause runs on e: the pending call rejected with it (st "failed"),
\* or a statement after the call resolved threw it (st "ok").
Caught(heading, e, st) ==
    /\ result' = CatchBlock(heading, e)
    /\ error' = e
    /\ pc' = "done"
    /\ calls' = CatchCalls(calls, st)

Catches(heading, e, st) ==
    /\ Caught(heading, e, st)
    /\ UNCHANGED <<tool, input, args, locals, cloud, suspended>>

\* projectId || await getProjectId(): the default is asked for when this holds.
NeedsDefaultAlways(projectId) == TRUE
NeedsDefault(projectId) == ~Truthy(projectId)

\* const project = await getProjectId()
StartWithDefault ==
    /\ pc = "start"
    /\ Awaits(GetProjectIdCall, "getProjectId", <<>>)
    /\ UNCHANGED <<tool, input, args, locals, error, result, cloud, suspended>>

\* The call c made for project proj (the project argument of the call, or the
\* projectId of the Storage client it is made through).
ForProject(c, proj) == [c EXCEPT !.project = proj]

\* const project = projectId || await getProjectId(), then the first call c
StartWithProjectId(c, label) ==
    /\ pc = "start"
    /\ IF NeedsDefault(args.projectId)
       THEN /\ Awaits(GetProjectIdCall, "getProjectId", <<>>)
            /\ project' = project
       ELSE /\ Awaits(ForProject(c, args.projectId), label, <<>>)
            /\ project' = args.projectId
    /\ UNCHANGED <<tool, input, args, instance, zoneNames, idx, instances, nodes,
                   edges, probes, error, result, cloud, suspended>>

\* getProjectId() resolved: the first call c is issued for the default project.
ResolvedDefault(c, label) ==
    /\ pc = "getProjectId"
    /\ project' = DefaultProject
    /\ Awaits(ForProject(c, DefaultProject), label, <<>>)
    /\ UNCHANGED <<tool, input, args, instance, zoneNames, idx, instances, nodes,
                   edges, probes, error, result, cloud, suspended>>

Frame == UNCHANGED <<tool, input, args, locals, error, cloud, suspended>>

(***************************************************************************)
(* Formatting helpers.                                                     *)
(***************************************************************************)
RECURSIVE Concat(_)
Concat(ss) == IF ss = <<>> THEN <<>> ELSE Head(ss) \o Concat(Tail(ss))

\* (n.accessConfigs || []).map(ac => ac.natIP).filter(Boolean)
NatIps(nic) ==
    LET acs == OrEmpty(nic.accessConfigs)
    IN  SelectSeq([i \in 1..Len(acs) |-> acs[i].natIP], Truthy)

\* (instance.networkInterfaces || []).flatMap(...)
ExternalIps(inst) ==
    LET nics == OrEmpty(inst.networkInterfaces)
    IN  Concat([i \in 1..Len(nics) |-> NatIps(nics[i])])

\* The last external IP instead of the first.
FirstIpLast(ips) == ips[Len(ips)]
FirstIp(ips) == ips[1]

\* formatInstance, abridged to the name
FormatInstance(i) == "- **" \o i \o "**"
FormatAll(is) == [k \in 1..Len(is) |-> FormatInstance(is[k])]

\* The named zones, last first.
ZoneNamesReversed(zones) ==
    LET zs == OrEmpty(zones)
        ns == SelectSeq([i \in 1..Len(zs) |-> zs[i].name], Truthy)
    IN  [i \in 1..Len(ns) |-> ns[Len(ns) + 1 - i]]

\* (zones || []).map(z => z.name).filter(Boolean)
ZoneNamesOf(zones) ==
    LET zs == OrEmpty(zones)
    IN  SelectSeq([i \in 1..Len(zs) |-> zs[i].name], Truthy)

(***************************************************************************)
(* Inputs of the tools and their inputSchema defaults.                     *)
(***************************************************************************)
Default(v, d) == IF v = Absent THEN d ELSE v
DefaultPageSize == 50
DefaultProjectsPageSize == 200
DefaultMachineType == "e2-medium"
DefaultImage == "projects/debian-cloud/global/images/family/debian-11"
DefaultNetwork == "global/networks/default"
\* a page size below zero stands for an omitted one
PageSizeOr(n, d) == IF n < 0 THEN d ELSE n

NameZone == [name : VmNames, zone : ZoneInputs]
VmInputs == [projectId : ProjectIds, zone : ZoneInputs, vmName : VmNames]
Inputs(t) ==
    CASE t = "gcp-compute-list-instances" ->
            [zone : {Absent, "", "z"}, filter : {Absent, "status=RUNNING"},
             pageSize : {-1, 1}]
      [] t \in {"gcp-compute-delete-instance", "gcp-compute-get-instance-ip",
                "gcp-compute-start-instance", "gcp-compute-stop-instance"} -> NameZone
      [] t = "gcp-compute-create-instance" ->
            [name : VmNames, zone : ZoneInputs,
             machineType : {Absent, "", "n1-standard-1"},
             image : {Absent, "projects/x/global/images/custom"},
             network : {Absent}, startupScript : {Absent, "", "echo hi"}]
      [] t = "deploy-static-html-site" ->
            [projectId : ProjectIds, zone : ZoneInputs, vmName : VmNames,
             htmlContent : HtmlContents]
      [] t \in {"get-compute-vm-status", "get-compute-vm-ip"} -> VmInputs
      [] t = "create-static-site-bucket" ->
            [projectId : ProjectIds, bucketName : BucketNames, location : {Absent, "EU"}]
      [] t = "upload-static-site-html" ->
            [bucketName : BucketNames, fileName : {Absent, "about.html"},
             htmlContent : {SomeHtml}]
      [] t = "list-static-site-buckets" -> [projectId : ProjectIds]
      [] t = "delete-static-site-bucket" -> [bucketName : BucketNames]
      [] t = "deploy-static-site-from-html" ->
            [projectId : ProjectIds, zone : ZoneInputs, vmName : VmNames,
             bucketName : BucketNames, htmlContent : {<<>>, SomeHtml}]
      [] t = "gcp-list-project-ids" -> [filter : {Absent, "state:ACTIVE"}, pageSize : {-1, 1}]
      [] t = "generate_gcp_mermaid_diagram" -> [projectId : {"p", "q"}]
      \* the {projectId} of the URI: a string, or an array and then its first element
      [] t = "gcp-compute-instances" -> [projectId : {"", "p"}, isArray : BOOLEAN]

Tools ==
    { "gcp-compute-list-instances", "gcp-compute-delete-instance",
      "gcp-compute-create-instance", "gcp-compute-get-instance-ip",
      "gcp-compute-start-instance", "gcp-compute-stop-instance",
      "deploy-static-html-site", "get-compute-vm-status", "get-compute-vm-ip",
      "create-static-site-bucket", "upload-static-site-html",
      "list-static-site-buckets", "delete-static-site-bucket",
      "deploy-static-site-from-html", "gcp-list-project-ids",
      "generate_gcp_mermaid_diagram" }
Resources == {"gcp-compute-instances"}
Handlers == Tools \cup Resources

\* The inputSchema of each tool: defaults fill the omitted optional inputs.
Parse(t, raw) ==
    CASE t = "gcp-compute-list-instances" ->
            [raw EXCEPT !.pageSize = PageSizeOr(@, DefaultPageSize)]
      [] t = "gcp-compute-create-instance" ->
            [raw EXCEPT !.machineType = Default(@, DefaultMachineType),
                        !.image = Default(@, DefaultImage),
                        !.network = Default(@, DefaultNetwork)]
      [] t = "create-static-site-bucket" -> [raw EXCEPT !.location = Default(@, "US")]
      [] t = "upload-static-site-html" -> [raw EXCEPT !.fileName = Default(@, "index.html")]
      [] t = "gcp-list-project-ids" ->
            [raw EXCEPT !.pageSize = PageSizeOr(@, DefaultProjectsPageSize)]
      [] OTHER -> raw

NoInput == [none |-> TRUE]

\* An invocation: its handler, its position in it and its locals.  Running is
\* the one that executes, NoActivation one that does not exist.
Running ==
    [tool |-> tool, input |-> input, args |-> args, pc |-> pc, project |-> project,
     instance |-> instance, zoneNames |-> zoneNames, idx |-> idx,
     instances |-> instances, nodes |-> nodes, edges |-> edges, probes |-> probes,
     error |-> error, calls |-> calls, result |-> result]
NoActivation ==
    [tool |-> "idle", input |-> NoInput, args |-> NoInput, pc |-> "idle",
     project |-> Absent, instance |-> NoInstance, zoneNames |-> <<>>, idx |-> 0,
     instances |-> <<>>, nodes |-> <<>>, edges |-> <<>>, probes |-> <<>>,
     error |-> NoError, calls |-> <<>>, result |-> NoResult]

Init ==
    /\ tool = "idle"
    /\ input = NoInput
    /\ args = NoInput
    /\ pc = "idle"
    /\ project = Absent
    /\ instance = NoInstance
    /\ zoneNames = <<>>
    /\ idx = 0
    /\ instances = <<>>
    /\ nodes = <<>>
    /\ edges = <<>>
    /\ probes = <<>>
    /\ error = NoError
    /\ calls = <<>>
    /\ result = NoResult
    /\ buckets = {}
    /\ objects = {}
    /\ suspended = NoActivation

\* The server dispatches a request to the registered handler t.
Dispatch(t, raw) ==
    /\ tool' = t
    /\ input' = raw
    /\ args' = Parse(t, raw)
    /\ pc' = "start"
    /\ project' = Absent
    /\ instance' = NoInstance
    /\ zoneNames' = <<>>
    /\ idx' = 0
    /\ instances' = <<>>
    /\ nodes' = <<>>
    /\ edges' = <<>>
    /\ probes' = <<>>
    /\ error' = NoError
    /\ calls' = <<>>
    /\ result' = NoResult
    /\ UNCHANGED <<cloud, suspended>>

Invoke ==
    /\ tool = "idle"
    /\ \E t \in Handlers : \E raw \in Inputs(t) : Dispatch(t, raw)

\* The result reaches the caller; nothing of the invocation is kept.
Deliver ==
    /\ pc = "done"
    /\ tool' = "idle"
    /\ input' = NoInput
    /\ args' = NoInput
    /\ pc' = "idle"
    /\ project' = Absent
    /\ instance' = NoInstance
    /\ zoneNames' = <<>>
    /\ idx' = 0
    /\ instances' = <<>>
    /\ nodes' = <<>>
    /\ edges' = <<>>
    /\ probes' = <<>>
    /\ error' = NoError
    /\ calls' = <<>>
    /\ result' = NoResult
    /\ UNCHANGED <<cloud, suspended>>

(***************************************************************************)
(* gcp-compute-list-instances                                              *)
(***************************************************************************)
\* Every listing reported as a list, the empty one too.
ListAllResultNoEmptyCase(proj, is) ==
    Text(<<"# Instances\n\nProject: ", proj, "\n\n">> \o FormatAll(is))

ListAllResult(proj, is) ==
    IF Len(is) = 0
    THEN Text(<<"# Instances\n\n", "No compute instances found in project ", proj>>)
    ELSE Text(<<"# Instances\n\nProject: ", proj, "\n\n">> \o FormatAll(is))

\* A per-zone list call that passes the filter and the page size on.
ZoneListCallPaged(proj, z) ==
    Call("instances.list", proj, z, Absent,
         [maxResults |-> args.pageSize, filter |-> args.filter])
\* client.list({ project, zone: z })
ZoneListCall(proj, z) == Call("instances.list", proj, z, Absent, NoArg)

ListInstances ==
    /\ tool = "gcp-compute-list-instances"
    /\ \/ StartWithDefault
       \/ /\ pc = "getProjectId"
          /\ project' = DefaultProject
          /\ IF Truthy(args.zone)
             THEN Awaits(Call("instances.list", DefaultProject, args.zone, Absent,
                              [maxResults |-> args.pageSize, filter |-> args.filter]),
                         "list", <<>>)
             ELSE Awaits(Call("zones.list", DefaultProject, Absent, Absent, NoArg),
                         "zones", <<>>)
          /\ UNCHANGED <<tool, input, args, instance, zoneNames, idx, instances,
                         nodes, edges, probes, error, result, cloud, suspended>>
       \/ /\ pc = "list"
          /\ \E r \in InstanceArrays :
                LET items == OrEmpty(r)
                IN  Returns(IF Len(items) = 0
                            THEN Text(<<"No instances found in zone ", args.zone>>)
                            ELSE Text(<<"# Instances in ", args.zone, "\n\n">>
                                      \o FormatAll(items)),
                            items)
          /\ Frame
       \/ /\ pc = "zones"
          /\ \E zs \in ZoneArrays :
                LET names == ZoneNamesOf(zs)
                    raw == [i \in 1..Len(OrEmpty(zs)) |-> OrEmpty(zs)[i].name]
                IN  /\ zoneNames' = names
                    /\ IF names = <<>>
                       THEN /\ Returns(ListAllResult(project, <<>>), raw)
                            /\ idx' = idx
                       ELSE /\ Awaits(ZoneListCall(project, names[1]), "zoneList", raw)
                            /\ idx' = 1
                            /\ result' = result
          /\ UNCHANGED <<tool, input, args, project, instance, instances, nodes,
                         edges, probes, error, cloud, suspended>>
       \/ /\ pc = "zoneList"
          /\ \E r \in InstanceArrays :
                LET all == instances \o OrEmpty(r)
                IN  /\ instances' = all
                    /\ IF idx < Len(zoneNames)
                       THEN /\ Awaits(ZoneListCall(project, zoneNames[idx + 1]),
                                      "zoneList", OrEmpty(r))
                            /\ idx' = idx + 1
                            /\ result' = result
                       ELSE /\ Returns(ListAllResult(project, all), OrEmpty(r))
                            /\ idx' = idx
          /\ UNCHANGED <<tool, input, args, project, instance, zoneNames, nodes,
                         edges, probes, error, cloud, suspended>>
       \/ /\ pc \in {"getProjectId", "list", "zones", "zoneList"}
          /\ \E e \in Thrown : Catches(<<"# Error Listing Instances\n\n">>, e, "failed")

(***************************************************************************)
(* delete, start and stop: one call on the named instance                  *)
(***************************************************************************)
InstanceCall(op) == Call(op, DefaultProject, args.zone, args.name, NoArg)

DeleteInstance ==
    /\ tool = "gcp-compute-delete-instance"
    /\ \/ StartWithDefault
       \/ /\ pc = "getProjectId"
          /\ project' = DefaultProject
          /\ Awaits(InstanceCall("instances.delete"), "delete", <<>>)
          /\ UNCHANGED <<tool, input, args, instance, zoneNames, idx, instances,
                         nodes, edges, probes, error, result, cloud, suspended>>
       \/ /\ pc = "delete"
          /\ Returns(Text(<<"# Delete Started\n\nDeletion request submitted for instance: ",
                            args.name, " in zone ", args.zone>>), <<>>)
          /\ Frame
       \/ /\ pc \in {"getProjectId", "delete"}
          /\ \E e \in Thrown :
                Catches(<<"# Error Deleting Instance\n\nFailed to delete instance ",
                          args.name, ": ">>, e, "failed")

StartInstance ==
    /\ tool = "gcp-compute-start-instance"
    /\ \/ StartWithDefault
       \/ /\ pc = "getProjectId"
          /\ project' = DefaultProject
          /\ Awaits(InstanceCall("instances.start"), "start-call", <<>>)
          /\ UNCHANGED <<tool, input, args, instance, zoneNames, idx, instances,
                         nodes, edges, probes, error, result, cloud, suspended>>
       \/ /\ pc = "start-call"
          /\ Returns(Text(<<"# Start Requested\n\nStart request submitted for instance ",
                            args.name, " in zone ", args.zone>>), <<>>)
          /\ Frame
       \/ /\ pc \in {"getProjectId", "start-call"}
          /\ \E e \in Thrown :
                Catches(<<"# Error Starting Instance\n\nFailed to start instance ",
                          args.name, ": ">>, e, "failed")

StopInstance ==
    /\ tool = "gcp-compute-stop-instance"
    /\ \/ StartWithDefault
       \/ /\ pc = "getProjectId"
          /\ project' = DefaultProject
          /\ Awaits(InstanceCall("instances.stop"), "stop", <<>>)
          /\ UNCHANGED <<tool, input, args, instance, zoneNames, idx, instances,
                         nodes, edges, probes, error, result, cloud, suspended>>
       \/ /\ pc = "stop"
          /\ Returns(Text(<<"# Stop Requested\n\nStop request submitted for instance ",
                            args.name, " in zone ", args.zone>>), <<>>)
          /\ Frame
       \/ /\ pc \in {"getProjectId", "stop"}
          /\ \E e \in Thrown :
                Catches(<<"# Error Stopping Instance\n\nFailed to stop instance ",
                          args.name, ": ">>, e, "failed")

(***************************************************************************)
(* gcp-compute-create-instance                                             *)
(***************************************************************************)
\* The zone and the machine type in each other's place.
MachineTypePathSwapped(zone, machineType) ==
    "zones/" \o machineType \o "/machineTypes/" \o zone

\* `zones/${zone}/machineTypes/${machineType}`
MachineTypePath(zone, machineType) ==
    "zones/" \o zone \o "/machineTypes/" \o machineType

StartupScriptItem(script) == [key |-> "startup-script", value |-> script]

InstanceResource(a) ==
    [name |-> a.name,
     machineType |-> MachineTypePath(a.zone, a.machineType),
     sourceImage |-> a.image,
     network |-> a.network,
     metadata |-> IF Truthy(a.startupScript)
                  THEN <<StartupScriptItem(<<a.startupScript>>)>> ELSE <<>>,
     scopes |-> <<>>]

CreateInstance ==
    /\ tool = "gcp-compute-create-instance"
    /\ \/ StartWithDefault
       \/ /\ pc = "getProjectId"
          /\ project' = DefaultProject
          /\ Awaits(Call("instances.insert", DefaultProject, args.zone, args.name,
                         InstanceResource(args)), "insert", <<>>)
          /\ UNCHANGED <<tool, input, args, instance, zoneNames, idx, instances,
                         nodes, edges, probes, error, result, cloud, suspended>>
       \/ /\ pc = "insert"
          /\ Returns(Text(<<"# Instance Creation Started\n\nInstance ", args.name,
                            " is being created in zone ", args.zone>>), <<>>)
          /\ Frame
       \/ /\ pc \in {"getProjectId", "insert"}
          /\ \E e \in Thrown :
                Catches(<<"# Error Creating Instance\n\nFailed to create instance ",
                          args.name, ": ">>, e, "failed")

(***************************************************************************)
(* gcp-compute-get-instance-ip                                             *)
(***************************************************************************)
StatusOf(inst) == IF inst.defined /\ Truthy(inst.status) THEN inst.status ELSE "UNKNOWN"

GetInstanceIpResult(name, zone, proj, inst) ==
    IF ~inst.defined
    THEN ErrorText(<<"# Instance Not Found\n\nNo instance named ", name,
                     " found in zone ", zone>>)
    ELSE LET externalIps == ExternalIps(inst)
         IN  Text(<<"# Instance: ", name, "\n\nStatus: ", StatusOf(inst),
                    "\nExternal IPs: ">>
                  \o (IF Len(externalIps) > 0 THEN externalIps
                      ELSE <<"No external IPs found">>)
                  \o <<"\n\nSuggested SSH commands:\n- gcloud compute ssh ", name,
                       " --zone ", zone, " --project ", proj, "\n- ">>
                  \o (IF Len(externalIps) > 0
                      THEN <<"ssh <USERNAME>@", FirstIp(externalIps)>>
                      ELSE <<"No external IP to SSH directly">>))

GetInstanceIp ==
    /\ tool = "gcp-compute-get-instance-ip"
    /\ \/ StartWithDefault
       \/ /\ pc = "getProjectId"
          /\ project' = DefaultProject
          /\ Awaits(InstanceCall("instances.get"), "get", <<>>)
          /\ UNCHANGED <<tool, input, args, instance, zoneNames, idx, instances,
                         nodes, edges, probes, error, result, cloud, suspended>>
       \/ /\ pc = "get"
          /\ \E inst \in InstanceValues :
                /\ instance' = inst
                /\ Returns(GetInstanceIpResult(args.name, args.zone, project, inst), <<>>)
          /\ UNCHANGED <<tool, input, args, project, zoneNames, idx, instances,
                         nodes, edges, probes, error, cloud, suspended>>
       \/ /\ pc \in {"getProjectId", "get"}
          /\ \E e \in Thrown :
                Catches(<<"# Error Getting Instance IPs\n\nFailed to fetch IPs for instance ",
                          args.name, ": ">>, e, "failed")

(***************************************************************************)
(* deploy-static-html-site                                                 *)
(***************************************************************************)
DeployVmResource(zone, vmName, script, scopes) ==
    [name |-> vmName,
     machineType |-> MachineTypePath(zone, "e2-micro"),
     sourceImage |-> "projects/debian-cloud/global/images/family/debian-12",
     network |-> "global/networks/default",
     metadata |-> <<StartupScriptItem(script)>>,
     scopes |-> scopes]

HtmlSiteInsert(proj) ==
    Call("instances.insert", proj, args.zone, args.vmName,
         DeployVmResource(args.zone, args.vmName, StartupScript(args.htmlContent), <<>>))

DeployStaticHtmlSite ==
    /\ tool = "deploy-static-html-site"
    /\ \/ StartWithProjectId(HtmlSiteInsert(Absent), "insert")
       \/ ResolvedDefault(HtmlSiteInsert(Absent), "insert")
       \/ /\ pc = "insert"
          /\ Returns(Text(<<"# Deploy Started\n\nOperation: ", "{}">>), <<>>)
          /\ Frame
       \/ /\ pc \in {"getProjectId", "insert"}
          /\ \E e \in Thrown :
                Catches(<<"# Error Deploying Static Site\n\nFailed to deploy to ",
                          args.vmName, ": ">>, e, "failed")

(***************************************************************************)
(* get-compute-vm-status and get-compute-vm-ip                             *)
(***************************************************************************)
VmGet(proj) == Call("instances.get", proj, args.zone, args.vmName, NoArg)

GetVmStatus ==
    /\ tool = "get-compute-vm-status"
    /\ \/ StartWithProjectId(VmGet(Absent), "get")
       \/ ResolvedDefault(VmGet(Absent), "get")
       \/ /\ pc = "get"
          /\ \E inst \in InstanceValues :
                /\ instance' = inst
                /\ Returns(Text(<<"# VM Status\n\nInstance ", args.vmName, " status: ",
                                  StatusOf(inst)>>), <<>>)
          /\ UNCHANGED <<tool, input, args, project, zoneNames, idx, instances,
                         nodes, edges, probes, error, cloud, suspended>>
       \/ /\ pc \in {"getProjectId", "get"}
          /\ \E e \in Thrown :
                Catches(<<"# Error Getting VM Status\n\nFailed to get status for ",
                          args.vmName, ": ">>, e, "failed")

VmIpErrorHeading == <<"# Error Getting VM IP\n\nFailed to fetch IP for ", args.vmName, ": ">>

\* An instance without an external IP reported as a plain result.
VmIpResultUnflagged(vmName, externalIps) ==
    IF Len(externalIps) = 0
    THEN Text(<<"# No External IP\n\nInstance ", vmName, " has no external IP assigned">>)
    ELSE Text(<<"# Instance URL\n\n", "http://" \o FirstIp(externalIps)>>)

VmIpResult(vmName, externalIps) ==
    IF Len(externalIps) = 0
    THEN ErrorText(<<"# No External IP\n\nInstance ", vmName,
                     " has no external IP assigned">>)
    ELSE Text(<<"# Instance URL\n\n", "http://" \o FirstIp(externalIps)>>)

GetVmIp ==
    /\ tool = "get-compute-vm-ip"
    /\ \/ StartWithProjectId(VmGet(Absent), "get")
       \/ ResolvedDefault(VmGet(Absent), "get")
       \/ /\ pc = "get"
          /\ \E inst \in InstanceValues :
                /\ instance' = inst
                /\ IF inst.defined
                   THEN /\ Returns(VmIpResult(args.vmName, ExternalIps(inst)), <<>>)
                        /\ error' = error
                   ELSE \* instance.networkInterfaces of undefined
                        Caught(VmIpErrorHeading, TypeErrorOfUndefined, "ok")
          /\ UNCHANGED <<tool, input, args, project, zoneNames, idx, instances,
                         nodes, edges, probes, cloud, suspended>>
       \/ /\ pc \in {"getProjectId", "get"}
          /\ \E e \in Thrown : Catches(VmIpErrorHeading, e, "failed")

(***************************************************************************)
(* Cloud Storage: what a call that succeeds needs and does.  A call may    *)
(* always fail instead, and then changes nothing.                          *)
(***************************************************************************)
StorageSucceeds(op, b, f) ==
    CASE op = "storage.createBucket" ->
            /\ b \notin buckets
            /\ buckets' = buckets \cup {b}
            /\ objects' = objects
      [] op = "bucket.setMetadata" -> b \in buckets /\ UNCHANGED cloud
      [] op = "file.save" ->
            /\ b \in buckets
            /\ objects' = objects \cup {<<b, f>>}
            /\ buckets' = buckets
      [] op = "file.makePublic" -> <<b, f>> \in objects /\ UNCHANGED cloud
      [] op = "bucket.delete" ->
            /\ b \in buckets
            /\ \A o \in objects : o[1] # b
            /\ buckets' = buckets \ {b}
            /\ objects' = objects
      [] OTHER -> UNCHANGED cloud

UniformAccess == [iamConfiguration |-> [uniformBucketLevelAccess |-> [enabled |-> TRUE]]]
CreateBucketCall(proj, b, location) ==
    Call("storage.createBucket", proj, Absent, b, [location |-> location])
SetMetadataCall(proj, b) == Call("bucket.setMetadata", proj, Absent, b, UniformAccess)
SaveCall(proj, b, f, html) ==
    Call("file.save", proj, Absent, b,
         [file |-> f, content |-> html, contentType |-> "text/html"])
MakePublicCall(proj, b, f) == Call("file.makePublic", proj, Absent, b, [file |-> f])

(***************************************************************************)
(* create-static-site-bucket                                               *)
(***************************************************************************)
BucketCreate(proj) == CreateBucketCall(proj, args.bucketName, args.location)

CreateStaticSiteBucket ==
    /\ tool = "create-static-site-bucket"
    /\ \/ StartWithProjectId(BucketCreate(Absent), "createBucket")
       \/ ResolvedDefault(BucketCreate(Absent), "createBucket")
       \/ /\ pc = "createBucket"
          /\ StorageSucceeds("storage.createBucket", args.bucketName, Absent)
          /\ Awaits(SetMetadataCall(project, args.bucketName), "setMetadata", <<>>)
          /\ UNCHANGED <<tool, input, args, locals, error, result, suspended>>
       \/ /\ pc = "setMetadata"
          /\ StorageSucceeds("bucket.setMetadata", args.bucketName, Absent)
          /\ Returns(Text(<<"# Bucket Created\n\nBucket ", args.bucketName,
                            " created in ", args.location>>), <<>>)
          /\ UNCHANGED <<tool, input, args, locals, error, suspended>>
       \/ /\ pc \in {"getProjectId", "createBucket", "setMetadata"}
          /\ \E e \in Thrown :
                Catches(<<"# Error Creating Bucket\n\nFailed to create bucket ",
                          args.bucketName, ": ">>, e, "failed")

(***************************************************************************)
(* upload-static-site-html                                                 *)
(***************************************************************************)
UploadStaticSiteHtml ==
    /\ tool = "upload-static-site-html"
    /\ \/ /\ pc = "start"
          /\ Awaits(SaveCall(Absent, args.bucketName, args.fileName, args.htmlContent),
                    "save", <<>>)
          /\ UNCHANGED <<tool, input, args, locals, error, result, cloud, suspended>>
       \/ /\ pc = "save"
          /\ StorageSucceeds("file.save", args.bucketName, args.fileName)
          /\ Awaits(MakePublicCall(Absent, args.bucketName, args.fileName),
                    "makePublic", <<>>)
          /\ UNCHANGED <<tool, input, args, locals, error, result, suspended>>
       \/ /\ pc = "makePublic"
          /\ StorageSucceeds("file.makePublic", args.bucketName, args.fileName)
          /\ Returns(Text(<<"# Upload Successful\n\nFile uploaded and public at ",
                            "https://storage.googleapis.com/" \o args.bucketName
                                \o "/" \o args.fileName>>), <<>>)
          /\ UNCHANGED <<tool, input, args, locals, error, suspended>>
       \/ /\ pc \in {"save", "makePublic"}
          /\ \E e \in Thrown :
                Catches(<<"# Error Uploading HTML\n\nFailed to upload ", args.fileName,
                          " to ", args.bucketName, ": ">>, e, "failed")

(***************************************************************************)
(* list-static-site-buckets and delete-static-site-bucket                  *)
(***************************************************************************)
GetBucketsCall(proj) == Call("storage.getBuckets", proj, Absent, Absent, NoArg)

ListStaticSiteBuckets ==
    /\ tool = "list-static-site-buckets"
    /\ \/ StartWithProjectId(GetBucketsCall(Absent), "getBuckets")
       \/ ResolvedDefault(GetBucketsCall(Absent), "getBuckets")
       \/ /\ pc = "getBuckets"
          /\ \E bs \in BucketArrays :
                Returns(Text(<<"# Buckets\n\n">>
                             \o (IF Len(OrEmpty(bs)) > 0 THEN OrEmpty(bs)
                                 ELSE <<"(none)">>)),
                        OrEmpty(bs))
          /\ Frame
       \/ /\ pc \in {"getProjectId", "getBuckets"}
          /\ \E e \in Thrown : Catches(<<"# Error Listing Buckets\n\n">>, e, "failed")

DeleteStaticSiteBucket ==
    /\ tool = "delete-static-site-bucket"
    /\ \/ /\ pc = "start"
          /\ Awaits(Call("bucket.delete", Absent, Absent, args.bucketName, NoArg),
                    "delete", <<>>)
          /\ UNCHANGED <<tool, input, args, locals, error, result, cloud, suspended>>
       \/ /\ pc = "delete"
          /\ StorageSucceeds("bucket.delete", args.bucketName, Absent)
          /\ Returns(Text(<<"# Bucket Deleted\n\nBucket ", args.bucketName, " deleted">>),
                     <<>>)
          /\ UNCHANGED <<tool, input, args, locals, error, suspended>>
       \/ /\ pc = "delete"
          /\ \E e \in Thrown :
                Catches(<<"# Error Deleting Bucket\n\nFailed to delete bucket ",
                          args.bucketName, ": ">>, e, "failed")

(***************************************************************************)
(* deploy-static-site-from-html                                            *)
(***************************************************************************)
ReadOnlyScope == "https://www.googleapis.com/auth/devstorage.read_only"
SyncScript(b) ==
    <<"#!/bin/bash", "set -e", "apt-get update -y",
      "apt-get install -y nginx google-cloud-sdk || (apt-get install -y python3-pip && pip install gsutil)",
      "mkdir -p /var/www/html", "gsutil -m rsync -r gs://", b, " /var/www/html || true",
      "systemctl restart nginx || service nginx restart || true">>

\* The upload moved ahead of the metadata call.
DeployNextUploadFirst(step) ==
    CASE step = "createBucket" -> "save"
      [] step = "save" -> "setMetadata"
      [] step = "setMetadata" -> "makePublic"
      [] step = "makePublic" -> "insert"

\* The statement order of the handler: the await that follows each await.
DeployNext(step) ==
    CASE step = "createBucket" -> "setMetadata"
      [] step = "setMetadata" -> "save"
      [] step = "save" -> "makePublic"
      [] step = "makePublic" -> "insert"

DeployOp(step) ==
    CASE step = "createBucket" -> "storage.createBucket"
      [] step = "setMetadata" -> "bucket.setMetadata"
      [] step = "save" -> "file.save"
      [] step = "makePublic" -> "file.makePublic"
      [] step = "insert" -> "instances.insert"

DeployCall(step, proj) ==
    CASE step = "createBucket" -> CreateBucketCall(proj, args.bucketName, "US")
      [] step = "setMetadata" -> SetMetadataCall(proj, args.bucketName)
      [] step = "save" -> SaveCall(proj, args.bucketName, "index.html", args.htmlContent)
      [] step = "makePublic" -> MakePublicCall(proj, args.bucketName, "index.html")
      [] step = "insert" ->
            Call("instances.insert", proj, args.zone, args.vmName,
                 DeployVmResource(args.zone, args.vmName, SyncScript(args.bucketName),
                                  <<ReadOnlyScope>>))

DeployFirst(proj) == DeployCall("createBucket", proj)

DeployStaticSiteFromHtml ==
    /\ tool = "deploy-static-site-from-html"
    /\ \/ StartWithProjectId(DeployFirst(Absent), "createBucket")
       \/ ResolvedDefault(DeployFirst(Absent), "createBucket")
       \/ /\ pc \in {"createBucket", "setMetadata", "save", "makePublic"}
          /\ StorageSucceeds(DeployOp(pc), args.bucketName, "index.html")
          /\ Awaits(DeployCall(DeployNext(pc), project), DeployNext(pc), <<>>)
          /\ UNCHANGED <<tool, input, args, locals, error, result, suspended>>
       \/ /\ pc = "insert"
          /\ Returns(Text(<<"# Deploy Started\n\nOperation: ", "{}">>), <<>>)
          /\ Frame
       \/ /\ pc \in {"getProjectId", "createBucket", "setMetadata", "save",
                     "makePublic", "insert"}
          /\ \E e \in Thrown :
                Catches(<<"# Error Deploying Static Site\n\n">>, e, "failed")

(***************************************************************************)
(* gcp-list-project-ids                                                    *)
(***************************************************************************)
StripProjects(name) ==
    CASE name = Absent -> ""
      [] name = "projects/p" -> "p"
      [] name = "projects/q" -> "q"
      [] OTHER -> name

\* p.projectId || (p.name || '').replace('projects/', '') || ''
ProjectIdsOf(ps) ==
    SelectSeq([i \in 1..Len(ps) |->
                  IF Truthy(ps[i].projectId) THEN ps[i].projectId
                  ELSE StripProjects(ps[i].name)], Truthy)

ListProjectIds ==
    /\ tool = "gcp-list-project-ids"
    /\ \/ /\ pc = "start"
          /\ Awaits(Call("projects.listProjects", Absent, Absent, Absent,
                         [pageSize |-> args.pageSize, filter |-> args.filter]),
                    "listProjects", <<>>)
          /\ UNCHANGED <<tool, input, args, locals, error, result, cloud, suspended>>
       \/ /\ pc = "listProjects"
          /\ \E ps \in ProjectArrays :
                Returns(IF Len(OrEmpty(ps)) = 0
                        THEN Text(<<"# Projects\n\nNo projects found.">>)
                        ELSE Text(<<"# Project IDs\n\n">> \o ProjectIdsOf(ps.items)),
                        <<>>)
          /\ Frame
       \/ /\ pc = "listProjects"
          /\ \E e \in Thrown : Catches(<<"# Error Listing Projects\n\n">>, e, "failed")

(***************************************************************************)
(* The resource gcp-compute-instances, gcp-compute://{projectId}/instances *)
(***************************************************************************)
\* { contents: [{ uri: uri.href, text }] }: the result of a resource read has
\* no isError property.
Contents(t) == [kind |-> "returned", text |-> t, isError |-> FALSE]

\* catch (error: unknown) { ...; return { contents: [{ uri, text }] } }
ResourceCatchBlock(e) ==
    Contents(<<"# Error Fetching Instances\n\nAn error occurred while fetching instances: ",
               MessageOf(e)>>)

\* `- ${inst.name || 'unknown'} (...) - ...`, abridged to the name
ResourceLine(i) == "- " \o i
ResourceResult(proj, is) ==
    IF Len(is) = 0
    THEN Contents(<<"# Instances\n\n", "No compute instances found in project ", proj>>)
    ELSE Contents(<<"# Instances\n\nProject: ", proj, "\n\n">>
                  \o [k \in 1..Len(is) |-> ResourceLine(is[k])])

ResourceZonesCall(proj) == Call("zones.list", proj, Absent, Absent, NoArg)

InstancesResource ==
    /\ tool = "gcp-compute-instances"
    /\ \/ /\ pc = "start"
          \* Array.isArray(projectId) ? projectId[0] : projectId || (await getProjectId())
          /\ IF ~args.isArray /\ NeedsDefault(args.projectId)
             THEN /\ Awaits(GetProjectIdCall, "getProjectId", <<>>)
                  /\ project' = project
             ELSE /\ Awaits(ResourceZonesCall(args.projectId), "zones", <<>>)
                  /\ project' = args.projectId
          /\ UNCHANGED <<tool, input, args, instance, zoneNames, idx, instances,
                         nodes, edges, probes, error, result, cloud, suspended>>
       \/ /\ pc = "getProjectId"
          /\ project' = DefaultProject
          /\ Awaits(ResourceZonesCall(DefaultProject), "zones", <<>>)
          /\ UNCHANGED <<tool, input, args, instance, zoneNames, idx, instances,
                         nodes, edges, probes, error, result, cloud, suspended>>
       \/ /\ pc = "zones"
          /\ \E zs \in ZoneArrays :
                LET names == ZoneNamesOf(zs)
                    raw == [i \in 1..Len(OrEmpty(zs)) |-> OrEmpty(zs)[i].name]
                IN  /\ zoneNames' = names
                    /\ IF names = <<>>
                       THEN /\ Returns(ResourceResult(project, <<>>), raw)
                            /\ idx' = idx
                       ELSE /\ Awaits(ZoneListCall(project, names[1]), "zoneList", raw)
                            /\ idx' = 1
                            /\ result' = result
          /\ UNCHANGED <<tool, input, args, project, instance, instances, nodes,
                         edges, probes, error, cloud, suspended>>
       \/ /\ pc = "zoneList"
          /\ \E r \in InstanceArrays :
                LET all == instances \o OrEmpty(r)
                IN  /\ instances' = all
                    /\ IF idx < Len(zoneNames)
                       THEN /\ Awaits(ZoneListCall(project, zoneNames[idx + 1]),
                                      "zoneList", OrEmpty(r))
                            /\ idx' = idx + 1
                            /\ result' = result
                       ELSE /\ Returns(ResourceResult(project, all), OrEmpty(r))
                            /\ idx' = idx
          /\ UNCHANGED <<tool, input, args, project, instance, zoneNames, nodes,
                         edges, probes, error, cloud, suspended>>
       \/ /\ pc \in {"getProjectId", "zones", "zoneList"}
          /\ \E e \in Thrown :
                /\ result' = ResourceCatchBlock(e)
                /\ error' = e
                /\ pc' = "done"
                /\ calls' = CatchCalls(calls, "failed")
          /\ UNCHANGED <<tool, input, args, locals, cloud, suspended>>

(***************************************************************************)
(* The Mermaid helpers, the service probes and the diagram assembler.      *)
(***************************************************************************)
Node(id, label, cls) == id \o "[\"" \o label \o "\"]:::" \o cls
Edge(from, to) == from \o " --> " \o to

BuildDiagram(ns, es) ==
    <<"flowchart LR", "%% Google Cloud Architecture">> \o ns \o es
    \o <<"%% GCP Styles",
         "classDef project fill:#1a73e8,color:#fff,stroke:#174ea6,stroke-width:2px",
         "classDef compute fill:#e8f0fe,stroke:#1a73e8",
         "classDef database fill:#fce8e6,stroke:#d93025",
         "classDef storage fill:#e8f0fe,stroke:#1967d2",
         "classDef network fill:#e6f4ea,stroke:#188038",
         "classDef iam fill:#ede7f6,stroke:#673ab7",
         "classDef observability fill:#fff3e0,stroke:#ef6c00">>

\* if (zone): an object is truthy whatever it holds, undefined is not.
IsObject(zone) == zone.defined
\* for await (const zone of ...) { if (zone) { nodes.push("COMPUTE"); break } }
\* The elements the loop takes from position i on, up to the break.
RECURSIVE Examined(_, _)
Examined(yields, i) ==
    IF i > Len(yields) THEN <<>>
    ELSE IF IsObject(yields[i]) THEN <<yields[i]>>
    ELSE <<yields[i]>> \o Examined(yields, i + 1)
\* The elements for which "COMPUTE" was pushed.
Pushed(yields) == SelectSeq(Examined(yields, 1), IsObject)
\* return nodes.length > 0
DiscoverCompute(yields) == Len(Pushed(yields)) > 0
\* instances.length > 0
DiscoverSpanner(is) == Len(is) > 0
DiscoverIam == TRUE
\* A logging probe that finds nothing.
DiscoverLoggingNothing == FALSE
DiscoverLogging == TRUE
DiscoverMonitoring == TRUE

\* The probes called with the IAM probe moved to the front.
ProbesIamFirst ==
    <<"discoverIam", "discoverCompute", "discoverSpanner", "discoverLogging",
      "discoverMonitoring">>
\* The probes of the assembler, in the order of its if statements.
Probes ==
    <<"discoverCompute", "discoverSpanner", "discoverIam", "discoverLogging",
      "discoverMonitoring">>
ProbeNames == {Probes[i] : i \in 1..Len(Probes)}
\* The probe of the if statement after that of p, "none" after the last.
ProbeAfter(p) ==
    LET i == IndexOf(Probes, p)
    IN  IF i < Len(Probes) THEN Probes[i + 1] ELSE "none"

\* Every probe asking the cloud.
CloudBackedAll(p) == TRUE
\* The probes that ask the cloud, and the call each one makes.
CloudBacked(p) == p \in {"discoverCompute", "discoverSpanner"}
ProbeCall(p, projectId) ==
    IF p = "discoverCompute"
    THEN Call("instances.listAsync", projectId, Absent, Absent, NoArg)
    ELSE Call("spanner.getInstances", projectId, Absent, Absent, NoArg)
\* What the call of a probe may resolve with; the constant probes make none.
ProbeOutcomes(p) ==
    CASE p = "discoverCompute" -> AsyncYields
      [] p = "discoverSpanner" -> SpannerArrays
      [] OTHER -> {<<>>}
\* What the call log keeps of it: the instances getInstances resolved with,
\* the element at which the loop over listAsync broke.
ProbeItems(p, r) ==
    CASE p = "discoverSpanner" -> r
      [] p = "discoverCompute" -> Pushed(r)
      [] OTHER -> <<>>
ProbeResult(p, r) ==
    CASE p = "discoverCompute" -> DiscoverCompute(r)
      [] p = "discoverSpanner" -> DiscoverSpanner(r)
      [] p = "discoverIam" -> DiscoverIam
      [] p = "discoverLogging" -> DiscoverLogging
      [] p = "discoverMonitoring" -> DiscoverMonitoring

\* The lists hold the arguments node() and edge() were called with; NodeText
\* and EdgeText are the strings the two helpers made of them.
NodeText(n) == Node(n.id, n.label, n.cls)
EdgeText(e) == Edge(e.from, e.to)
Rendered(ns, es) ==
    BuildDiagram([i \in 1..Len(ns) |-> NodeText(ns[i])],
                 [i \in 1..Len(es) |-> EdgeText(es[i])])

\* The assembler starting from empty lists.
NoProjectNode(projectId) == <<>>
\* nodes.push(node("PROJECT", `GCP Project<br/>${projectId}`, "project"))
ProjectNode(projectId) ==
    <<[id |-> "PROJECT", label |-> "GCP Project<br/>" \o projectId, cls |-> "project"]>>
\* Nodes named after their class: the two observability probes share an id.
ProbeNodeByClass(p) ==
    CASE p = "discoverCompute" ->
            [id |-> "COMPUTE", label |-> "Compute Engine", cls |-> "compute"]
      [] p = "discoverSpanner" ->
            [id |-> "DATABASE", label |-> "Cloud Spanner", cls |-> "database"]
      [] p = "discoverIam" -> [id |-> "IAM", label |-> "IAM", cls |-> "iam"]
      [] p = "discoverLogging" ->
            [id |-> "OBSERVABILITY", label |-> "Cloud Logging", cls |-> "observability"]
      [] p = "discoverMonitoring" ->
            [id |-> "OBSERVABILITY", label |-> "Cloud Monitoring", cls |-> "observability"]
\* The node and the edge pushed in the branch of probe p.
ProbeNode(p) ==
    CASE p = "discoverCompute" ->
            [id |-> "COMPUTE", label |-> "Compute Engine", cls |-> "compute"]
      [] p = "discoverSpanner" ->
            [id |-> "SPANNER", label |-> "Cloud Spanner", cls |-> "database"]
      [] p = "discoverIam" -> [id |-> "IAM", label |-> "IAM", cls |-> "iam"]
      [] p = "discoverLogging" ->
            [id |-> "LOGGING", label |-> "Cloud Logging", cls |-> "observability"]
      [] p = "discoverMonitoring" ->
            [id |-> "MONITORING", label |-> "Cloud Monitoring", cls |-> "observability"]
ProbeEdge(p) == [from |-> "PROJECT", to |-> ProbeNode(p).id]

\* A branch that pushes its edge first.
FirstPushEdge(ns, es, p) == [nodes |-> ns, edges |-> Append(es, ProbeEdge(p))]
\* The two statements of a branch: nodes.push(node(...)), then edges.push(edge(...)).
FirstPush(ns, es, p) == [nodes |-> Append(ns, ProbeNode(p)), edges |-> es]
SecondPush(ns, es, p) == [nodes |-> ns, edges |-> Append(es, ProbeEdge(p))]

\* What the probe log records.
Called(p) == [probe |-> p, event |-> "called"]
Answered(p, found) == [probe |-> p, event |-> IF found THEN "true" ELSE "false"]
Threw(p) == [probe |-> p, event |-> "threw"]

DiagramFrame == UNCHANGED <<tool, input, args, project, instance, zoneNames, idx,
                            instances, error, cloud, suspended>>

\* await discoverX(...): probe p is called and the assembler waits for it.
CallsProbe(p, cs, log) ==
    /\ pc' = p
    /\ probes' = Append(log, Called(p))
    /\ calls' = IF CloudBacked(p) THEN Append(cs, ProbeCall(p, args.projectId)) ELSE cs
    /\ result' = result

\* After the if statement of p: the next probe, or return buildDiagram(nodes, edges)
\* to the handler, which returns it as its text.
Proceeds(p, cs, log) ==
    IF ProbeAfter(p) = "none"
    THEN /\ result' = Text(Rendered(nodes', edges'))
         /\ pc' = "done"
         /\ calls' = cs
         /\ probes' = log
    ELSE CallsProbe(ProbeAfter(p), cs, log)

\* A probe that throws taken for a service that is absent.
ProbeThrowsAbsent(p, e) ==
    /\ UNCHANGED <<nodes, edges, error>>
    /\ Proceeds(p, SettleLast(calls, "failed", <<>>), Append(probes, Threw(p)))
\* Probe p throws e: the assembler has no try statement, the catch clause of the
\* handler runs.
ProbeThrows(p, e) ==
    /\ Caught(<<"# Error Generating Diagram\n\n">>, e, "failed")
    /\ probes' = Append(probes, Threw(p))
    /\ UNCHANGED <<nodes, edges>>

GenerateDiagram ==
    /\ tool = "generate_gcp_mermaid_diagram"
    /\ \/ /\ pc = "start"
          /\ nodes' = ProjectNode(args.projectId)
          /\ edges' = <<>>
          /\ CallsProbe(Probes[1], calls, probes)
          /\ DiagramFrame
       \/ /\ pc \in ProbeNames
          /\ \E r \in ProbeOutcomes(pc) :
                LET found == ProbeResult(pc, r)
                    cs == IF CloudBacked(pc)
                          THEN SettleLast(calls, "ok", ProbeItems(pc, r))
                          ELSE calls
                    log == Append(probes, Answered(pc, found))
                IN  IF found
                    THEN /\ nodes' = FirstPush(nodes, edges, pc).nodes
                         /\ edges' = FirstPush(nodes, edges, pc).edges
                         /\ pc' = "edges.push"
                         /\ calls' = cs
                         /\ probes' = log
                         /\ result' = result
                    ELSE /\ UNCHANGED <<nodes, edges>>
                         /\ Proceeds(pc, cs, log)
          /\ DiagramFrame
       \/ /\ pc = "edges.push"
          /\ LET p == probes[Len(probes)].probe
             IN  /\ nodes' = SecondPush(nodes, edges, p).nodes
                 /\ edges' = SecondPush(nodes, edges, p).edges
                 /\ Proceeds(p, calls, probes)
          /\ DiagramFrame
       \/ /\ pc \in ProbeNames
          /\ CloudBacked(pc)
          /\ \E e \in Thrown : ProbeThrows(pc, e)
          /\ UNCHANGED <<tool, input, args, project, instance, zoneNames, idx, instances,
                         cloud, suspended>>

Next ==
    \/ Invoke
    \/ Deliver
    \/ ListInstances
    \/ DeleteInstance
    \/ CreateInstance
    \/ GetInstanceIp
    \/ StartInstance
    \/ StopInstance
    \/ DeployStaticHtmlSite
    \/ GetVmStatus
    \/ GetVmIp
    \/ CreateStaticSiteBucket
    \/ UploadStaticSiteHtml
    \/ ListStaticSiteBuckets
    \/ DeleteStaticSiteBucket
    \/ DeployStaticSiteFromHtml
    \/ ListProjectIds
    \/ GenerateDiagram
    \/ InstancesResource

Spec == Init /\ [][Next]_vars

(***************************************************************************)
(* Two invocations in progress.  The event loop runs one handler at a      *)
(* time and changes over only where the running one is suspended at an     *)
(* await, that is between two steps: Switch puts the running invocation    *)
(* aside and resumes the other.                                            *)
(***************************************************************************)
\* The arrays of the handlers kept at module level: the invocation resumed
\* finds them as the other one left them.
ResumeSharedArrays(saved, current) ==
    [saved EXCEPT !.nodes = current.nodes, !.edges = current.edges,
                  !.instances = current.instances]
\* What a resumed invocation finds: every variable of a handler is a parameter
\* or a const of its own call, so all of it is as the invocation left it.
Resume(saved, current) == saved

Switch ==
    /\ suspended # Running
    /\ suspended' = Running
    /\ LET a == Resume(suspended, Running)
       IN  /\ tool' = a.tool
           /\ input' = a.input
           /\ args' = a.args
           /\ pc' = a.pc
           /\ project' = a.project
           /\ instance' = a.instance
           /\ zoneNames' = a.zoneNames
           /\ idx' = a.idx
           /\ instances' = a.instances
           /\ nodes' = a.nodes
           /\ edges' = a.edges
           /\ probes' = a.probes
           /\ error' = a.error
           /\ calls' = a.calls
           /\ result' = a.result
    /\ UNCHANGED cloud

\* The handlers that are run against each other, and the requests they get.
ConcurrentHandlers ==
    {"generate_gcp_mermaid_diagram", "gcp-compute-list-instances", "gcp-compute-instances"}
ConcurrentInputs(t) ==
    CASE t = "gcp-compute-list-instances" ->
            [zone : {Absent}, filter : {Absent}, pageSize : {-1}]
      [] t = "gcp-compute-instances" -> [projectId : {"p"}, isArray : {FALSE}]
      [] OTHER -> Inputs(t)

\* The invocations that list zone by zone.  Of the two invocations at most one
\* does: the responses of a walk over the zones are many, and two such walks
\* side by side are more states than can be visited.
WalksZones(t, raw) ==
    \/ t = "gcp-compute-instances"
    \/ t = "gcp-compute-list-instances" /\ ~Truthy(raw.zone)

InvokeConcurrently ==
    /\ tool = "idle"
    /\ \E t \in ConcurrentHandlers : \E raw \in ConcurrentInputs(t) :
          /\ WalksZones(t, raw) => ~WalksZones(suspended.tool, suspended.input)
          /\ Dispatch(t, raw)

ConcurrentNext ==
    \/ InvokeConcurrently
    \/ Switch
    \/ Deliver
    \/ ListInstances
    \/ GenerateDiagram
    \/ InstancesResource

ConcurrentSpec == Init /\ [][ConcurrentNext]_vars

TypeOK ==
    /\ tool \in Handlers \cup {"idle"}
    /\ result.kind \in {"none", "returned", "thrown"}
    /\ result.isError \in BOOLEAN
    /\ (pc = "done") = (result.kind # "none" /\ tool # "idle")

(***************************************************************************)
(* Properties.                                                             *)
(***************************************************************************)
Done == pc = "done"
CallsOf(op) == SelectSeq(calls, LAMBDA c : c.op = op)
CloudCalls == SelectSeq(calls, LAMBDA c : c.op # "getProjectId")
SomeCall(op, st) == \E i \in 1..Len(calls) : calls[i].op = op /\ calls[i].status = st
ACallFailed == \E i \in 1..Len(calls) : calls[i].status = "failed"
ACloudCallFailed ==
    \E i \in 1..Len(calls) : calls[i].op # "getProjectId" /\ calls[i].status = "failed"
AllCallsOk == \A i \in 1..Len(calls) : calls[i].status = "ok"

\* C1: no handler invocation ever hands a thrown value to its caller; whatever
\* a call or a step in between throws, a finished invocation has returned a result.
C1_AlwaysReturns ==
    /\ result.kind # "thrown"
    /\ Done => result.kind = "returned"

C1_Witness_CaughtFault ==
    /\ Done
    /\ ACallFailed
    /\ error \in Thrown
    /\ result.kind = "returned"

\* C2 as stated: a failed call whose thrown value carries a message m gives an
\* error-flagged result whose text contains m; a thrown value without a message
\* gives the text 'Unknown error'.
C2_MessageOfEveryFault ==
    (tool \in Tools /\ Done /\ ACloudCallFailed) =>
        /\ result.isError
        /\ IF error.message # NoMessage
           THEN Contains(result.text, error.message)
           ELSE Contains(result.text, "Unknown error")

\* C2 amended: a failed call that threw an Error instance with message m gives
\* an error-flagged result whose text contains m; any thrown value that is not
\* an Error instance, with a message or without, gives the text 'Unknown error'.
C2_MessageOfErrorInstances ==
    (tool \in Tools /\ Done /\ ACallFailed) =>
        /\ result.isError
        /\ IF error.isErrorInstance
           THEN Contains(result.text, error.message)
           ELSE Contains(result.text, "Unknown error")

C2_Witness_ErrorWithMessage ==
    /\ tool \in Tools
    /\ Done
    /\ ACloudCallFailed
    /\ error = [isErrorInstance |-> TRUE, message |-> "quota exceeded"]
    /\ result.isError
    /\ Contains(result.text, "quota exceeded")

\* C3: deploy-static-site-from-html issues bucket-create ('US'), metadata-set
\* (uniform access), object-save (index.html, text/html), make-public and
\* instance-insert (storage read-only scope) in this order, each one only after
\* the one before it has succeeded.
DeployOrder ==
    <<"storage.createBucket", "bucket.setMetadata", "file.save", "file.makePublic",
      "instances.insert">>
DeployCallAsStated(i, c) ==
    CASE i = 1 -> c.arg.location = "US"
      [] i = 2 -> c.arg.iamConfiguration.uniformBucketLevelAccess.enabled
      [] i = 3 -> c.arg.file = "index.html" /\ c.arg.contentType = "text/html"
      [] i = 4 -> c.arg.file = "index.html"
      [] i = 5 -> \E k \in 1..Len(c.arg.scopes) :
                    c.arg.scopes[k] = "https://www.googleapis.com/auth/devstorage.read_only"
C4_NoCompensation ==
    ( /\ tool = "deploy-static-site-from-html"
      /\ Done
      /\ SomeCall("storage.createBucket", "ok")
      /\ ACallFailed ) =>
        /\ result.kind = "returned"
        /\ result.isError
        /\ \A i \in 1..Len(calls) : calls[i].op \notin {"bucket.delete", "file.delete"}
        /\ input.bucketName \in buckets
        /\ SomeCall("file.save", "ok") => <<input.bucketName, "index.html">> \in objects

C4_Witness_InsertFailed ==
    /\ tool = "deploy-static-site-from-html"
    /\ Done
    /\ SomeCall("storage.createBucket", "ok")
    /\ SomeCall("instances.insert", "failed")
    /\ input.bucketName \in buckets
    /\ <<input.bucketName, "index.html">> \in objects

\* C5: when instance-get resolves with no instance, get-instance-ip,
\* get-vm-status and get-vm-ip each return an error-flagged result.
C5_AbsentInstanceIsError ==
    ( /\ tool \in {"gcp-compute-get-instance-ip", "get-compute-vm-status",
                   "get-compute-vm-ip"}
      /\ Done
      /\ SomeCall("instances.get", "ok")
      /\ ~instance.defined ) =>
        /\ result.kind = "returned"
        /\ result.isError

\* C6: get-vm-ip on an instance whose only network interface has no access
\* config returns an error-flagged result saying that no external IP is
\* assigned, having issued the instance-get call and no mutating call.
SoleInterfaceWithoutAccessConfig(inst) ==
    /\ inst.defined
    /\ inst.networkInterfaces.isArray
    /\ Len(inst.networkInterfaces.items) = 1
    /\ Len(OrEmpty(inst.networkInterfaces.items[1].accessConfigs)) = 0
C6_NoExternalIp ==
    ( /\ tool = "get-compute-vm-ip"
      /\ Done
      /\ SomeCall("instances.get", "ok")
      /\ SoleInterfaceWithoutAccessConfig(instance) ) =>
        /\ result.kind = "returned"
        /\ result.isError
        /\ \E i \in 1..Len(result.text) :
              result.text[i] = " has no external IP assigned"
        /\ Len(CloudCalls) = 1
        /\ CloudCalls[1].op = "instances.get"

C6_Witness_NoAccessConfig ==
    /\ tool = "get-compute-vm-ip"
    /\ Done
    /\ SomeCall("instances.get", "ok")
    /\ SoleInterfaceWithoutAccessConfig(instance)
    /\ result.isError

\* C7: list-instances without a zone, in a project where the listing of every
\* zone comes back empty, returns a result that is not error-flagged and says
\* that no instances were found.
C7_NoInstancesFound ==
    ( /\ tool = "gcp-compute-list-instances"
      /\ ~Truthy(input.zone)
      /\ Done
      /\ AllCallsOk
      /\ \A i \in 1..Len(calls) :
            calls[i].op = "instances.list" => calls[i].items = <<>> ) =>
        /\ result.kind = "returned"
        /\ ~result.isError
        /\ Contains(result.text, "No compute instances found in project ")

C7_Witness_EmptyZones ==
    /\ tool = "gcp-compute-list-instances"
    /\ ~Truthy(input.zone)
    /\ Done
    /\ AllCallsOk
    /\ Len(CallsOf("instances.list")) >= 2
    /\ \A i \in 1..Len(calls) : calls[i].op = "instances.list" => calls[i].items = <<>>
    /\ ~result.isError

\* C8: create-instance issues at most one instance-insert call, exactly one
\* when it succeeds, with machineType 'zones/<zone>/machineTypes/<machineType>'
\* and the boot disk's sourceImage equal to the image given, or to the debian-11
\* family when none is given.
C8_InsertArguments ==
    tool = "gcp-compute-create-instance" =>
        LET inserts == CallsOf("instances.insert")
            t == IF input.machineType = Absent THEN "e2-medium" ELSE input.machineType
            i == IF input.image = Absent
                 THEN "projects/debian-cloud/global/images/family/debian-11"
                 ELSE input.image
        IN  /\ Len(inserts) <= 1
            /\ (Done /\ ~result.isError) => Len(inserts) = 1
            /\ \A k \in 1..Len(inserts) :
                /\ inserts[k].arg.machineType = "zones/" \o input.zone \o "/machineTypes/" \o t
                /\ inserts[k].arg.sourceImage = i

C8_Witness_Created ==
    /\ tool = "gcp-compute-create-instance"
    /\ Done
    /\ ~result.isError
    /\ input.image = Absent
    /\ input.machineType = "n1-standard-1"
    /\ Len(CallsOf("instances.insert")) = 1

\* C9: the metadata that deploy-static-html-site passes to instance-insert has
\* exactly one 'startup-script' item, and for non-empty htmlContent the payload
\* the script echoes into base64 -d decodes to htmlContent.
StartupScripts(c) ==
    {k \in 1..Len(c.arg.metadata) : c.arg.metadata[k].key = "startup-script"}
C9_Base64RoundTrip ==
    tool = "deploy-static-html-site" =>
        \A i \in 1..Len(calls) :
            calls[i].op = "instances.insert" =>
                /\ Len(calls[i].arg.metadata) = 1
                /\ Cardinality(StartupScripts(calls[i])) = 1
                /\ input.htmlContent # <<>> =>
                    \A k \in StartupScripts(calls[i]) :
                        Utf8Decode(Base64Decode(EchoedPayload(calls[i].arg.metadata[k].value)))
                            = input.htmlContent

C9_Witness_MultiByteHtml ==
    /\ tool = "deploy-static-html-site"
    /\ Done
    /\ ~result.isError
    /\ input.htmlContent = <<233, 65>>
    /\ SomeCall("instances.insert", "ok")

\* C10: a handler with a projectId input uses the given projectId in all its
\* cloud calls when it is given and not empty, and the process default
\* otherwise; it asks for the default at most once, and not at all when a
\* non-empty projectId is given.
ProjectIdTools ==
    { "deploy-static-html-site", "get-compute-vm-status", "get-compute-vm-ip",
      "create-static-site-bucket", "list-static-site-buckets",
      "deploy-static-site-from-html" }
C10_EffectiveProject ==
    tool \in ProjectIdTools =>
        /\ \A i \in 1..Len(CloudCalls) :
              CloudCalls[i].project =
                  (IF input.projectId # Absent /\ input.projectId # ""
                   THEN input.projectId ELSE DefaultProject)
        /\ Len(CallsOf("getProjectId")) <= 1
        /\ (input.projectId # Absent /\ input.projectId # "") =>
              Len(CallsOf("getProjectId")) = 0
        /\ (Len(CloudCalls) > 0 /\ (input.projectId = Absent \/ input.projectId = "")) =>
              Len(CallsOf("getProjectId")) = 1

C10_Witness_EmptyProjectId ==
    /\ tool = "deploy-static-site-from-html"
    /\ Done
    /\ input.projectId = ""
    /\ Len(CloudCalls) = 5
    /\ CloudCalls[5].project = DefaultProject

(***************************************************************************)
(* The diagram assembler.                                                  *)
(***************************************************************************)
Diagram == tool = "generate_gcp_mermaid_diagram"
ProbeEvents(ev) == {i \in 1..Len(probes) : probes[i].event = ev}
ProbeThrew(p) == \E i \in ProbeEvents("threw") : probes[i].probe = p
ProbeSaid(p, ev) == \E i \in ProbeEvents(ev) : probes[i].probe = p
\* The lines of a diagram: node(), edge() and buildDiagram() output.
DiagramLines(t) ==
    {i \in 1..Len(t) :
        \/ t[i] = "flowchart LR"
        \/ \E n \in 1..Len(nodes) : t[i] = NodeText(nodes[n])
        \/ \E e \in 1..Len(edges) : t[i] = EdgeText(edges[e])}

\* C11: once a probe has thrown, the generation is over: the probe is not
\* answered as absent, no probe is called and no call issued after it, and the
\* handler has returned one result, flagged as an error, that holds the error
\* text and no line of a diagram.
C11_ProbeFailureAborts ==
    (Diagram /\ ProbeEvents("threw") # {}) =>
        /\ ProbeEvents("threw") = {Len(probes)}
        /\ ~ProbeSaid(probes[Len(probes)].probe, "true")
        /\ ~ProbeSaid(probes[Len(probes)].probe, "false")
        /\ calls[Len(calls)].status = "failed"
        /\ Done
        /\ result = ErrorText(<<"# Error Generating Diagram\n\n", MessageOf(error)>>)
        /\ DiagramLines(result.text) = {}

C11_Witness_SecondProbeThrew ==
    /\ Diagram
    /\ Done
    /\ ProbeSaid("discoverCompute", "true")
    /\ ProbeThrew("discoverSpanner")
    /\ Len(nodes) = 2
    /\ result.isError

\* The lines of a rendered document that declare a node, and those that draw an
\* edge from the project node.
NodeTexts ==
    {NodeText(ProjectNode(args.projectId)[1])} \cup {NodeText(ProbeNode(p)) : p \in ProbeNames}
ProjectEdgeTexts == {Edge("PROJECT", ProbeNode(p).id) : p \in ProbeNames}
NodeLines(t) == SelectSeq(t, LAMBDA l : l \in NodeTexts)
EdgeLines(t) == SelectSeq(t, LAMBDA l : l \in ProjectEdgeTexts)
FixedLines == Len(BuildDiagram(<<>>, <<>>))
ComputeAndDatabaseFound ==
    /\ Diagram
    /\ Done
    /\ ProbeSaid("discoverCompute", "true")
    /\ ProbeSaid("discoverSpanner", "true")

OpsCalled == {calls[i].op : i \in 1..Len(calls)}
\* How often the code of a handler reaches the call of op: once, or once per
\* zone name for the call inside the loop over the zone names.
TimesReached(op) ==
    IF op = "instances.list" /\ zoneNames # <<>> THEN Len(zoneNames) ELSE 1
SameRequest(c, d) ==
    /\ c.op = d.op
    /\ c.project = d.project
    /\ c.zone = d.zone
    /\ c.name = d.name
    /\ c.arg = d.arg

\* C14: an invocation issues the call of each of its steps at most once, and a
\* call that failed is the last call of its invocation: nothing is issued after
\* it, so it is not issued again, and the invocation is over.
C14_NoRetry ==
    /\ \A op \in OpsCalled : Len(CallsOf(op)) <= TimesReached(op)
    /\ \A i \in 1..Len(calls) :
          calls[i].status = "failed" =>
             /\ i = Len(calls)
             /\ Done
             /\ \A j \in (i + 1)..Len(calls) : ~SameRequest(calls[i], calls[j])

C14_Witness_SecondStepFailed ==
    /\ tool = "create-static-site-bucket"
    /\ Done
    /\ SomeCall("storage.createBucket", "ok")
    /\ SomeCall("bucket.setMetadata", "failed")
    /\ Len(CallsOf("bucket.setMetadata")) = 1

(***************************************************************************)
(* The instances resource.                                                 *)
(***************************************************************************)
ResourceListFailed ==
    /\ tool = "gcp-compute-instances"
    /\ \/ SomeCall("zones.list", "failed")
       \/ SomeCall("instances.list", "failed")

\* C15: when its zone-list or one of its instance-list calls fails, the
\* instances resource handler returns a result, as the tool handlers do: its
\* text holds the message of the failure and it is flagged as an error.
C15_ResourceErrorFlagged ==
    ResourceListFailed =>
        /\ Done
        /\ result.kind = "returned"
        /\ Contains(result.text, MessageOf(error))
        /\ result.isError

(***************************************************************************)
(* get-compute-vm-ip                                                       *)
(***************************************************************************)
Least(S) == CHOOSE i \in S : \A j \in S : i <= j
\* The positions of the access configs of nic that carry an external IP, the
\* positions of the interfaces of inst that have one, and the first external
\* IP of inst, going through its interfaces and then their access configs.
WithNatIp(nic) ==
    {k \in 1..Len(OrEmpty(nic.accessConfigs)) : Truthy(OrEmpty(nic.accessConfigs)[k].natIP)}
WithExternalIp(inst) ==
    {i \in 1..Len(OrEmpty(inst.networkInterfaces)) :
        WithNatIp(OrEmpty(inst.networkInterfaces)[i]) # {}}
FirstExternalIp(inst) ==
    LET nic == OrEmpty(inst.networkInterfaces)[Least(WithExternalIp(inst))]
    IN  OrEmpty(nic.accessConfigs)[Least(WithNatIp(nic))].natIP
GotInstanceWithExternalIp ==
    /\ tool = "get-compute-vm-ip"
    /\ Done
    /\ AllCallsOk
    /\ instance.defined
    /\ WithExternalIp(instance) # {}

\* C17: get-vm-ip on an instance with an external IP returns a result that is
\* not error-flagged and whose text, under the heading '# Instance URL', is
\* 'http://' followed by the first external IP of the instance, its interfaces
\* taken in order and the access configs of each in order.
C17_UrlOfFirstExternalIp ==
    GotInstanceWithExternalIp =>
        result = Text(<<"# Instance URL\n\n", "http://" \o FirstExternalIp(instance)>>)

C17_Witness_TwoInterfacesWithIps ==
    /\ GotInstanceWithExternalIp
    /\ Cardinality(WithExternalIp(instance)) = 2
    /\ Len(ExternalIps(instance)) >= 2
    /\ FirstExternalIp(instance) # ExternalIps(instance)[Len(ExternalIps(instance))]
    /\ ~result.isError
    /\ Contains(result.text, "http://" \o FirstExternalIp(instance))

\* The order of the probes as stated: compute, database, iam, logging, monitoring.
StatedOrder ==
    <<"discoverCompute", "discoverSpanner", "discoverIam", "discoverLogging",
      "discoverMonitoring">>
Completions == {"true", "false", "threw"}
InFlight ==
    Cardinality(ProbeEvents("called"))
        - Cardinality({i \in 1..Len(probes) : probes[i].event \in Completions})
\* The probes that answered true, in the stated order.
FoundInOrder == SelectSeq(StatedOrder, LAMBDA p : ProbeSaid(p, "true"))

\* C18: the probes are called in the order compute, database, iam, logging,
\* monitoring, each one only when the one before it has completed, so that at
\* most one probe is in flight; the nodes and the edges of the rendered document
\* follow the project node in that same order.
C18_ProbesInOrder ==
    Diagram =>
        /\ Len(probes) <= 2 * Len(StatedOrder)
        /\ \A i \in 1..Len(probes) :
              /\ probes[i].probe = StatedOrder[(i + 1) \div 2]
              /\ (i % 2 = 1) => probes[i].event = "called"
              /\ (i % 2 = 0) => probes[i].event \in Completions
        /\ InFlight \in {0, 1}
        /\ (Done /\ ~result.isError) =>
              /\ NodeLines(result.text)
                   = <<NodeText(ProjectNode(args.projectId)[1])>>
                     \o [i \in 1..Len(FoundInOrder) |-> NodeText(ProbeNode(FoundInOrder[i]))]
              /\ EdgeLines(result.text)
                   = [i \in 1..Len(FoundInOrder) |->
                         Edge("PROJECT", ProbeNode(FoundInOrder[i]).id)]

C18_Witness_AllProbesRun ==
    /\ Diagram
    /\ Done
    /\ ~result.isError
    /\ Len(probes) = 2 * Len(StatedOrder)
    /\ ProbeSaid("discoverCompute", "false")
    /\ ProbeSaid("discoverSpanner", "true")
    /\ Len(NodeLines(result.text)) = 5

BetweenBranches == pc \in ProbeNames \cup {"done"}

\* C19: from its first statement on, a generation has a node list that starts
\* with the project node, whatever the probes answer; while it waits for a probe
\* and when it is over, the edge list is one shorter than the node list.
C19_RootAndEdgeCount ==
    (Diagram /\ pc # "start") =>
        /\ Len(nodes) >= 1
        /\ nodes[1].id = "PROJECT"
        /\ BetweenBranches => Len(edges) = Len(nodes) - 1

C19_Witness_MixedOutcomes ==
    /\ Diagram
    /\ Done
    /\ ~result.isError
    /\ ProbeSaid("discoverCompute", "true")
    /\ ProbeSaid("discoverSpanner", "false")
    /\ Len(nodes) = 5
    /\ Len(edges) = 4

NodeIds == {nodes[i].id : i \in 1..Len(nodes)}
EdgesTo(id) == {i \in 1..Len(edges) : edges[i].to = id}

\* C20: in every state of a generation each edge runs between two nodes that
\* are in the node list; inside a branch the node of the probe is in the node
\* list before its edge is in the edge list, and a probe that answered false has
\* neither a node nor an edge.
C20_EdgesBetweenNodes ==
    Diagram =>
        /\ \A i \in 1..Len(edges) : edges[i].from \in NodeIds /\ edges[i].to \in NodeIds
        /\ \A p \in ProbeNames :
              ProbeSaid(p, "false") =>
                 ProbeNode(p).id \notin NodeIds /\ EdgesTo(ProbeNode(p).id) = {}
        /\ pc = "edges.push" =>
              /\ ProbeNode(probes[Len(probes)].probe).id \in NodeIds
              /\ EdgesTo(ProbeNode(probes[Len(probes)].probe).id) = {}

C20_Witness_InsideBranch ==
    /\ Diagram
    /\ pc = "edges.push"
    /\ ProbeSaid("discoverCompute", "false")
    /\ ProbeSaid("discoverSpanner", "true")
    /\ ProbeSaid("discoverIam", "true")
    /\ NodeIds = {"PROJECT", "SPANNER", "IAM"}
    /\ Len(edges) = 1

(***************************************************************************)
(* Two invocations side by side.                                           *)
(***************************************************************************)
\* What an invocation a holds when only its own requests and the responses to
\* them (its call log and its probe log) have entered it: the nodes and edges
\* of the probes that answered it true, and the instances its own per-zone
\* listings resolved with.
FoundBy(a) == SelectSeq(a.probes, LAMBDA e : e.event = "true")
OwnNodes(a) ==
    ProjectNode(a.args.projectId)
        \o [i \in 1..Len(FoundBy(a)) |-> ProbeNode(FoundBy(a)[i].probe)]
OwnEdges(a) ==
    LET n == IF a.pc = "edges.push" THEN Len(FoundBy(a)) - 1 ELSE Len(FoundBy(a))
    IN  [i \in 1..n |-> ProbeEdge(FoundBy(a)[i].probe)]
ZoneListings(a) ==
    SelectSeq(a.calls, LAMBDA c : c.op = "instances.list" /\ c.arg = NoArg /\ c.status = "ok")
OwnInstances(a) == Concat([i \in 1..Len(ZoneListings(a)) |-> ZoneListings(a)[i].items])
AllOk(a) == \A i \in 1..Len(a.calls) : a.calls[i].status = "ok"
\* The project an invocation asks the cloud about.
OwnProject(a) ==
    IF a.tool = "generate_gcp_mermaid_diagram" THEN a.args.projectId ELSE a.project
CloudBackedCalled(a) ==
    SelectSeq(a.probes, LAMBDA e : e.event = "called" /\ CloudBacked(e.probe))

AloneDiagram(a) ==
    /\ a.pc # "start" =>
          /\ a.nodes = OwnNodes(a)
          /\ a.edges = OwnEdges(a)
    /\ Len(a.calls) = Len(CloudBackedCalled(a))
    /\ \A i \in 1..Len(a.calls) :
          /\ a.calls[i].op = ProbeCall(CloudBackedCalled(a)[i].probe, Absent).op
          /\ a.calls[i].project = a.args.projectId
    /\ (a.pc = "done" /\ AllOk(a)) => a.result = Text(Rendered(OwnNodes(a), OwnEdges(a)))
    /\ (a.pc = "done" /\ ~AllOk(a)) =>
          a.result = CatchBlock(<<"# Error Generating Diagram\n\n">>, a.error)

AloneZoneWalk(a) ==
    /\ a.instances = OwnInstances(a)
    /\ \A i \in 1..Len(a.calls) :
          a.calls[i].op # "getProjectId" => a.calls[i].project = OwnProject(a)
    /\ \A i \in 1..Len(ZoneListings(a)) : ZoneListings(a)[i].zone = a.zoneNames[i]
    /\ (a.pc = "done" /\ AllOk(a)) =>
          a.result = (IF a.tool = "gcp-compute-instances"
                      THEN ResourceResult(a.project, OwnInstances(a))
                      ELSE ListAllResult(a.project, OwnInstances(a)))

AsAlone(a) ==
    CASE a.tool = "generate_gcp_mermaid_diagram" -> AloneDiagram(a)
      [] WalksZones(a.tool, a.input) -> AloneZoneWalk(a)
      [] OTHER -> a = NoActivation

\* C13: however the steps of two invocations interleave, each of them holds
\* only what its own requests and the responses to them put there: its calls
\* are those of its own run, for its own project, its result is the one that
\* run gives, and the node and edge lists of a diagram generation hold the
\* entries of its own probes and none of the other generation.
C13_InvocationsIsolated == AsAlone(Running) /\ AsAlone(suspended)

C13_Witness_TwoGenerations ==
    /\ Diagram
    /\ Done
    /\ ~result.isError
    /\ Len(nodes) = 5
    /\ suspended.tool = "generate_gcp_mermaid_diagram"
    /\ suspended.args.projectId # args.projectId
    /\ suspended.pc = "discoverSpanner"
    /\ Len(suspended.nodes) = 2

\* The ids a node of a diagram may have: the project's and one per service.
ServiceIds == {"COMPUTE", "SPANNER", "IAM", "LOGGING", "MONITORING"}
NodesWithId(id) == {i \in 1..Len(nodes) : nodes[i].id = id}
\* The node declarations of a rendered document are no two the same line.
DistinctLines(t) == \A i, j \in 1..Len(t) : i # j => t[i] # t[j]

\* C21: whatever the probes answer, no two nodes of a generation have the same
\* id: the project node is there once, every other node has the id of one of
\* the five services, and no service has more than one node.
C21_NodeIdsDistinct ==
    (Diagram /\ pc # "start") =>
        /\ \A i, j \in 1..Len(nodes) : i # j => nodes[i].id # nodes[j].id
        /\ Cardinality(NodesWithId("PROJECT")) = 1
        /\ \A i \in 2..Len(nodes) : nodes[i].id \in ServiceIds
        /\ \A id \in ServiceIds : Cardinality(NodesWithId(id)) <= 1
        /\ (Done /\ ~result.isError) => DistinctLines(NodeLines(result.text))

C21_Witness_AllServices ==
    /\ Diagram
    /\ Done
    /\ ~result.isError
    /\ NodeIds = {"PROJECT"} \cup ServiceIds
    /\ Len(nodes) = 6


(***************************************************************************)
(* C22: the compute probe and the instances of the zones.                  *)
(***************************************************************************)
\* The elements the finished call of the compute probe stopped at.
StoppedAt ==
    {c.items[1] : c \in {calls[i] : i \in {j \in 1..Len(calls) :
        /\ calls[j].op = "instances.listAsync"
        /\ calls[j].status = "ok"
        /\ Len(calls[j].items) > 0}}}

\* C22: the compute probe returns true exactly when some zone of the project
\* has at least one registered instance: whenever a diagram generation has
\* seen the probe answer true, the zone at which the probe stopped holds at
\* least one instance, and whenever it answered false the probe stopped at
\* no zone.
C22_TrueOnlyForZoneWithInstance ==
    Diagram =>
        /\ ProbeSaid("discoverCompute", "true") =>
               /\ StoppedAt # {}
               /\ \A zone \in StoppedAt : zone.instances >= 1
        /\ ProbeSaid("discoverCompute", "false") => StoppedAt = {}


(***************************************************************************)
(* C23: the fan-out of list-instances over the zones.                      *)
(***************************************************************************)
\* A list-instances invocation without a zone that has resolved its project.
WalkingZones ==
    /\ tool = "gcp-compute-list-instances"
    /\ ~Truthy(args.zone)
    /\ SomeCall("getProjectId", "ok")
\* The names the zone list returned, in the order returned.
NamedZones ==
    IF Len(CloudCalls) > 0 /\ CloudCalls[1].status = "ok"
    THEN SelectSeq(CloudCalls[1].items, Truthy)
    ELSE <<>>
PerZoneCalls == SubSeq(CloudCalls, 2, Len(CloudCalls))
PerZoneResults ==
    Concat([i \in 1..Len(PerZoneCalls) |->
               IF PerZoneCalls[i].status = "ok" THEN PerZoneCalls[i].items ELSE <<>>])

\* C23: list-instances called without a zone issues one zone-list call and
\* then one list call per named zone returned, in zone-list order and one at
\* a time (the call for a zone is issued only after the call before it has
\* resolved); an invocation that ends without an error has issued N + 1
\* calls for N named zones, and reports the concatenation of the per-zone
\* results in that order.
C23_OneCallPerZoneInOrder ==
    WalkingZones =>
        /\ Len(CloudCalls) >= 1
        /\ CloudCalls[1].op = "zones.list"
        /\ Len(PerZoneCalls) <= Len(NamedZones)
        /\ \A k \in 1..Len(PerZoneCalls) :
               /\ SameRequest(PerZoneCalls[k],
                              Call("instances.list", project, NamedZones[k], Absent, NoArg))
               /\ k < Len(PerZoneCalls) => PerZoneCalls[k].status = "ok"
        /\ \A i \in 1..Len(CloudCalls) :
               CloudCalls[i].status = "pending" => i = Len(CloudCalls) /\ ~Done
        /\ instances = (IF pc = "zones" THEN <<>> ELSE PerZoneResults)
        /\ (Done /\ ~result.isError) =>
               /\ Len(CloudCalls) = Len(NamedZones) + 1
               /\ result = ListAllResult(project, PerZoneResults)

C23_Witness_TwoZonesWalked ==
    /\ WalkingZones /\ Done /\ ~result.isError
    /\ Len(NamedZones) = 2
    /\ NamedZones[1] # NamedZones[2]
    /\ Len(CloudCalls) = 3
    /\ Len(PerZoneCalls[1].items) > 0
    /\ Len(PerZoneCalls[2].items) > 0


(***************************************************************************)
(* C24: the constant probes.                                               *)
(***************************************************************************)
ConstantProbes == {"discoverIam", "discoverLogging", "discoverMonitoring"}
ConstantIds == {"IAM", "LOGGING", "MONITORING"}
\* The entries of the probe log about p.
EventsOf(p) == SelectSeq(probes, LAMBDA e : e.probe = p)
\* The cloud calls issued up to the k-th entry of the probe log.
CallsIssuedBy(k) ==
    Cardinality({i \in 1..k : probes[i].event = "called"
                              /\ probes[i].probe \notin ConstantProbes})

\* C24: the IAM, logging and monitoring probes return true whatever the cloud
\* answers: a called one issues no cloud call, never throws and never answers
\* false, and a diagram generation that ends without an error has the IAM,
\* LOGGING and MONITORING nodes, each with its edge from PROJECT, in its
\* lists and in the rendered text.
C24_ConstantProbesTrue ==
    Diagram =>
        /\ \A p \in ConstantProbes :
               /\ ~ProbeSaid(p, "false")
               /\ ~ProbeThrew(p)
               /\ pc = p => calls[Len(calls)].status # "pending"
        /\ Len(calls) = CallsIssuedBy(Len(probes))
        /\ (Done /\ ~result.isError) =>
               /\ \A p \in ConstantProbes : ProbeSaid(p, "true")
               /\ \A id \in ConstantIds :
                      /\ id \in NodeIds
                      /\ \E e \in 1..Len(edges) : edges[e] = [from |-> "PROJECT", to |-> id]
                      /\ \E n \in 1..Len(nodes) :
                             /\ nodes[n].id = id
                             /\ Contains(result.text, NodeText(nodes[n]))
                      /\ Contains(result.text, Edge("PROJECT", id))

C24_Witness_OnlyConstantServices ==
    /\ Diagram /\ Done /\ ~result.isError
    /\ ProbeSaid("discoverCompute", "false")
    /\ ProbeSaid("discoverSpanner", "false")
    /\ NodeIds = {"PROJECT"} \cup ConstantIds
    /\ Len(edges) = 3


(***************************************************************************)
(* C25: where filter and pageSize of list-instances go.                    *)
(***************************************************************************)
ListCalls == CallsOf("instances.list")
Reported == Concat([i \in 1..Len(ListCalls) |->
                       IF ListCalls[i].status = "ok" THEN ListCalls[i].items ELSE <<>>])

====
